---- MODULE Spec2Model ----
(***************************************************************************)
(* Expense tracker: the expenses table, the CRUD handlers, the readers     *)
(* (getExpenses, getExpenseById) and the aggregation handlers              *)
(* (getExpenseSummary, getCategoryTotals, getMonthlySummaries).            *)
(*                                                                         *)
(* Units.  A JavaScript amount is counted in thousandths (25.50 is 25500), *)
(* a numeric(10,2) column value in hundredths (25.50 is 2550): the column  *)
(* keeps two decimals, the handler's number does not.  Dates and clock     *)
(* readings are points of one time line, counted in ticks from the first   *)
(* instant of year 0 (the years are counted from the year of the origin),  *)
(* TicksPerSecond ticks a second; the calendar has months of 31 days.      *)
(* An optional value is <<>> when absent and <<v>> when present.           *)
(* Sums and quotients are exact: the rounding error of binary floating     *)
(* point is not modelled.                                                  *)
(*                                                                         *)
(* A handler that awaits the store twice is two actions, and the           *)
(* statements of other callers run between them.  ret is the one response  *)
(* under observation: a call starts when the last response has been taken. *)
(***************************************************************************)
EXTENDS Integers, Sequences, FiniteSets, TLC

VARIABLES
    expenses,   \* the rows of expensesTable
    nextId,     \* the serial sequence behind expensesTable.id
    dbNow,      \* the database clock (defaultNow())
    appNow,     \* the handler's clock (new Date())
    ret,        \* what the last completed handler call returned
    ct,         \* the getCategoryTotals call in flight, between its two queries
    upd,        \* the updateExpense call in flight, between its SELECT and its UPDATE
    client      \* the state of App in the browser, and its calls in flight

vars == <<expenses, nextId, dbNow, appNow, ret, ct, upd, client>>

---------------------------------------------------------------------------
(* Bounds of the model *)

NumCats == 2        \* categories the callers use
NumPms == 2         \* payment methods the callers use
MaxDate == 2        \* dates and date bounds range over 1..MaxDate
MaxAmount == 2      \* whole-cent amounts range over 0.01 .. MaxAmount/100
MaxTime == 2        \* the clocks stop at MaxTime
MaxId == 2          \* ids the serial sequence hands out, so rows ever inserted
MaxInterleaved == 1 \* statements of other callers between a handler's two queries
TicksPerSecond == 2 \* instants of the time line within one second
MaxYear == 1        \* the years a caller asks for range over 1..MaxYear
MaxFilterAmount == 1 \* amount bounds of a filter range over 0.01 .. MaxFilterAmount/100
MaxCalls == 4       \* the calls App makes in one behaviour

---------------------------------------------------------------------------
(* Values *)

Absent == <<>>
Some(v) == <<v>>
Has(o) == o # <<>>
Val(o) == o[1]
Opt(S) == {Absent} \cup {Some(v) : v \in S}

expenseCategorySchema == <<"eat", "shop", "subscription", "others">>
paymentMethodSchema ==
    <<"cash", "card", "bank_transfer", "digital_wallet", "check", "others">>

Range(s) == {s[i] : i \in DOMAIN s}

Categories == {expenseCategorySchema[i] : i \in 1..NumCats}
Methods == {paymentMethodSchema[i] : i \in 1..NumPms}
Dates == 1..MaxDate
Descriptions == {"lunch"}

\* z.number().positive(): whole cents, and one value below half a cent
AmountInputs == {4} \cup {10 * k : k \in 1..MaxAmount}

\* input.amount.toString() stored in numeric(10,2): rounded to two decimals
ToNumeric(amount) == (amount + 5) \div 10

\* parseFloat of a numeric(10,2) text: hundredths read back as a number
ParseFloat(numeric) == 10 * numeric

\* the rows of a set in the order the store returns them
RECURSIVE RowsOf(_)
RowsOf(S) ==
    IF S = {} THEN <<>>
    ELSE LET e == CHOOSE x \in S : \A y \in S : x.id <= y.id
         IN  <<e>> \o RowsOf(S \ {e})

NoRet == [op |-> "none"]
IdleCt == [pc |-> "idle", startDate |-> Absent, endDate |-> Absent,
           categoryResults |-> <<>>, interleaved |-> 0]
IdleUpd == [pc |-> "idle", input |-> <<>>, updated_at |-> 0]
NoCall == [kind |-> "none"]

\* no response waits to be taken by its caller
Taken == ret = NoRet

\* the caller has taken the last response, or calls again with the same input
Callable(op, input) == Taken \/ (ret.op = op /\ ret.input = input)

\* a statement of another caller runs between the two queries of a call in flight
Interleave ==
    /\ ct.pc = "idle" \/ ct.interleaved < MaxInterleaved
    /\ ct' = IF ct.pc = "idle" THEN ct
             ELSE [ct EXCEPT !.interleaved = @ + 1]

---------------------------------------------------------------------------
(* Conditions of a WHERE clause *)

gte(col, v) == [col |-> col, cmp |-> "gte", val |-> v]
lte(col, v) == [col |-> col, cmp |-> "lte", val |-> v]
eq(col, v) == [col |-> col, cmp |-> "eq", val |-> v]

\* a numeric column against the text of a number: the column counts hundredths,
\* the number thousandths, and the store compares the two exactly
gteNumeric(col, v) == [col |-> col, cmp |-> "gteNumeric", val |-> v]
lteNumeric(col, v) == [col |-> col, cmp |-> "lteNumeric", val |-> v]

Holds(cond, row) ==
    CASE cond.cmp = "gte" -> row[cond.col] >= cond.val
      [] cond.cmp = "lte" -> row[cond.col] <= cond.val
      [] cond.cmp = "eq" -> row[cond.col] = cond.val
      [] cond.cmp = "gteNumeric" -> 10 * row[cond.col] >= cond.val
      [] cond.cmp = "lteNumeric" -> 10 * row[cond.col] <= cond.val

\* SelectWhere with or(...conditions) in place of and(...conditions)
SelectWhereOr(conditions) ==
    IF conditions = <<>> THEN expenses
    ELSE {e \in expenses : \E i \in DOMAIN conditions : Holds(conditions[i], e)}

\* db.select().from(expensesTable).where(and(...conditions)); no where when empty
SelectWhere(conditions) ==
    {e \in expenses : \A i \in DOMAIN conditions : Holds(conditions[i], e)}

---------------------------------------------------------------------------
(* createExpense, deleteExpense *)

CreateInputs ==
    [amount : AmountInputs, date : Dates, description : Descriptions,
     category : Categories, payment_method : Methods]

\* ToExpense without the parseFloat: the amount as the column holds it
ToExpenseUnparsed(row) == row

\* what the handler returns for a row: the row with its amount parsed
ToExpense(row) == [row EXCEPT !.amount = ParseFloat(row.amount)]

\* createExpense with the id taken from the table (the greatest id, plus one)
\* in place of the sequence
createExpenseMaxId(input) ==
    /\ Taken
    /\ nextId <= MaxId
    /\ LET row == [id |-> IF expenses = {} THEN 1
                          ELSE 1 + (CHOOSE n \in {e.id : e \in expenses} :
                                       \A e \in expenses : e.id <= n),
                   amount |-> ToNumeric(input.amount),
                   date |-> input.date,
                   description |-> input.description,
                   category |-> input.category,
                   payment_method |-> input.payment_method,
                   created_at |-> dbNow,
                   updated_at |-> dbNow]
       IN  /\ expenses' = expenses \cup {row}
           /\ ret' = [op |-> "createExpense", input |-> input, ok |-> TRUE,
                      value |-> ToExpense(row)]
    /\ nextId' = nextId + 1
    /\ Interleave
    /\ UNCHANGED <<client, dbNow, appNow, upd>>

createExpense(input) ==
    /\ Taken
    /\ nextId <= MaxId
    /\ LET row == [id |-> nextId,
                   amount |-> ToNumeric(input.amount),
                   date |-> input.date,
                   description |-> input.description,
                   category |-> input.category,
                   payment_method |-> input.payment_method,
                   created_at |-> dbNow,
                   updated_at |-> dbNow]
       IN  /\ expenses' = expenses \cup {row}
           /\ ret' = [op |-> "createExpense", input |-> input, ok |-> TRUE,
                      value |-> ToExpense(row)]
    /\ nextId' = nextId + 1
    /\ Interleave
    /\ UNCHANGED <<client, dbNow, appNow, upd>>

\* deleteExpense that reports a deletion whatever the statement returned
deleteExpenseTrue(id) ==
    /\ Taken
    /\ LET result == {e \in expenses : e.id = id}
       IN  /\ expenses' = expenses \ result
           /\ ret' = [op |-> "deleteExpense", input |-> id, ok |-> TRUE,
                      value |-> TRUE]
    /\ Interleave
    /\ UNCHANGED <<client, nextId, dbNow, appNow, upd>>

deleteExpense(id) ==
    /\ Taken
    /\ LET result == {e \in expenses : e.id = id}
       IN  /\ expenses' = expenses \ result
           /\ ret' = [op |-> "deleteExpense", input |-> id, ok |-> TRUE,
                      value |-> (Cardinality(result) > 0)]
    /\ Interleave
    /\ UNCHANGED <<client, nextId, dbNow, appNow, upd>>

---------------------------------------------------------------------------
(* updateExpense *)

UpdateInputs ==
    [id : 1..MaxId, amount : Opt(AmountInputs), date : Opt(Dates),
     description : Opt(Descriptions), category : Opt(Categories),
     payment_method : Opt(Methods)]

NotFound(id) == <<"Expense with id ", id, " not found">>

\* updateExpenseCheck without the existence check
updateExpenseCheckSkipped(input) ==
    /\ Taken
    /\ upd.pc = "idle"
    /\ upd' = [pc |-> "update", input |-> input, updated_at |-> appNow]
    /\ ret' = ret
    /\ UNCHANGED <<client, expenses, nextId, dbNow, appNow, ct>>

\* up to the UPDATE statement: the existence check, then updateData's timestamp
updateExpenseCheck(input) ==
    /\ Taken
    /\ upd.pc = "idle"
    /\ LET existingExpense == SelectWhere(<<eq("id", input.id)>>)
       IN  IF Cardinality(existingExpense) = 0
           THEN /\ ret' = [op |-> "updateExpense", input |-> input, ok |-> FALSE,
                           value |-> NotFound(input.id)]
                /\ upd' = upd
           ELSE /\ upd' = [pc |-> "update", input |-> input, updated_at |-> appNow]
                /\ ret' = ret
    /\ UNCHANGED <<client, expenses, nextId, dbNow, appNow, ct>>

\* .set(updateData): the fields of the input that are present, and updated_at
SetUpdateData(row, input, updated_at) ==
    [row EXCEPT
        !.updated_at = updated_at,
        !.amount = IF Has(input.amount) THEN ToNumeric(Val(input.amount)) ELSE @,
        !.date = IF Has(input.date) THEN Val(input.date) ELSE @,
        !.description = IF Has(input.description) THEN Val(input.description) ELSE @,
        !.category = IF Has(input.category) THEN Val(input.category) ELSE @,
        !.payment_method =
            IF Has(input.payment_method) THEN Val(input.payment_method) ELSE @]

\* the UPDATE ... RETURNING statement and the return; result[0] of no row is
\* undefined, and reading its amount throws a TypeError
updateExpenseUpdate ==
    /\ Taken
    /\ upd.pc = "update"
    /\ LET matched == SelectWhere(<<eq("id", upd.input.id)>>)
           result == {SetUpdateData(e, upd.input, upd.updated_at) : e \in matched}
       IN  /\ expenses' = (expenses \ matched) \cup result
           /\ ret' = IF result = {}
                     THEN [op |-> "updateExpense", input |-> upd.input, ok |-> FALSE,
                           value |-> <<"TypeError">>]
                     ELSE [op |-> "updateExpense", input |-> upd.input, ok |-> TRUE,
                           value |-> ToExpense(CHOOSE e \in result : TRUE)]
    /\ upd' = IdleUpd
    /\ Interleave
    /\ UNCHANGED <<client, nextId, dbNow, appNow>>

---------------------------------------------------------------------------
(* getExpenseSummary *)

SummaryInputs ==
    [start_date : Opt(Dates), end_date : Opt(Dates),
     category : Opt(Categories), payment_method : Opt(Methods)]

\* SummaryConditions without its last filter
SummaryConditionsNoMethod(input) ==
    (IF Has(input.start_date)
        THEN <<gte("date", Val(input.start_date))>> ELSE <<>>)
    \o (IF Has(input.end_date)
        THEN <<lte("date", Val(input.end_date))>> ELSE <<>>)
    \o (IF Has(input.category)
        THEN <<eq("category", Val(input.category))>> ELSE <<>>)

\* the conditions array; a call without input is the input with every field absent
SummaryConditions(input) ==
    (IF Has(input.start_date)
        THEN <<gte("date", Val(input.start_date))>> ELSE <<>>)
    \o (IF Has(input.end_date)
        THEN <<lte("date", Val(input.end_date))>> ELSE <<>>)
    \o (IF Has(input.category)
        THEN <<eq("category", Val(input.category))>> ELSE <<>>)
    \o (IF Has(input.payment_method)
        THEN <<eq("payment_method", Val(input.payment_method))>> ELSE <<>>)

\* processedExpenses.reduce((sum, expense) => sum + expense.amount, 0)
RECURSIVE ReduceAmount(_, _)
ReduceAmount(rows, sum) ==
    IF rows = <<>> THEN sum
    ELSE ReduceAmount(Tail(rows), sum + Head(rows).amount)

RECURSIVE GCD(_, _)
GCD(a, b) == IF b = 0 THEN a ELSE GCD(b, a % b)

\* the number a / b (b > 0), kept exact as a fraction in lowest terms
Quotient(a, b) ==
    LET g == GCD(a, b) IN [num |-> a \div g, den |-> b \div g]

Zero == [num |-> 0, den |-> 1]

\* AverageAmount without its guard: 0 / 0 is NaN, written 0 over 0
AverageAmountUnguarded(total_amount, total_count) ==
    IF total_count > 0 THEN Quotient(total_amount, total_count)
    ELSE [num |-> 0, den |-> 0]

\* total_count > 0 ? total_amount / total_count : 0
AverageAmount(total_amount, total_count) ==
    IF total_count > 0 THEN Quotient(total_amount, total_count) ELSE Zero

\* Breakdown with = in place of += on total_amount
RECURSIVE BreakdownAssigning(_, _, _)
BreakdownAssigning(rows, key, acc) ==
    IF rows = <<>> THEN acc
    ELSE LET e == Head(rows)
             k == e[key]
             had == IF k \in DOMAIN acc THEN acc
                    ELSE acc @@ (k :> [total_amount |-> 0, count |-> 0])
         IN  BreakdownAssigning(Tail(rows), key,
                 [had EXCEPT ![k] = [total_amount |-> e.amount,
                                     count |-> @.count + 1]])

\* the forEach that fills by_category (key "category") and by_payment_method
RECURSIVE Breakdown(_, _, _)
Breakdown(rows, key, acc) ==
    IF rows = <<>> THEN acc
    ELSE LET e == Head(rows)
             k == e[key]
             had == IF k \in DOMAIN acc THEN acc
                    ELSE acc @@ (k :> [total_amount |-> 0, count |-> 0])
         IN  Breakdown(Tail(rows), key,
                 [had EXCEPT ![k] = [total_amount |-> @.total_amount + e.amount,
                                     count |-> @.count + 1]])

EmptyRecord == [k \in {} |-> 0]

MinOf(S) == CHOOSE x \in S : \A y \in S : x <= y
MaxOf(S) == CHOOSE x \in S : \A y \in S : x >= y

\* Period with the least and the greatest date of the data exchanged
PeriodSwapped(processedExpenses, input, first, second) ==
    IF Len(processedExpenses) > 0
    THEN LET dates == {processedExpenses[i].date : i \in DOMAIN processedExpenses}
         IN  [start_date |-> MaxOf(dates), end_date |-> MinOf(dates)]
    ELSE [start_date |-> IF Has(input.start_date)
                         THEN Val(input.start_date) ELSE first,
          end_date |-> IF Has(input.end_date)
                       THEN Val(input.end_date) ELSE second]

\* Period that reads the clock whatever bounds the input gives
PeriodOfClock(processedExpenses, input, first, second) ==
    IF Len(processedExpenses) > 0
    THEN LET dates == {processedExpenses[i].date : i \in DOMAIN processedExpenses}
         IN  [start_date |-> MinOf(dates), end_date |-> MaxOf(dates)]
    ELSE [start_date |-> first, end_date |-> second]

\* the period: the dates of the data, or the input's bounds, or new Date();
\* first and second are the values the two new Date() calls would return
Period(processedExpenses, input, first, second) ==
    IF Len(processedExpenses) > 0
    THEN LET dates == {processedExpenses[i].date : i \in DOMAIN processedExpenses}
         IN  [start_date |-> MinOf(dates), end_date |-> MaxOf(dates)]
    ELSE [start_date |-> IF Has(input.start_date)
                         THEN Val(input.start_date) ELSE first,
          end_date |-> IF Has(input.end_date)
                       THEN Val(input.end_date) ELSE second]

Summary(processedExpenses, input, first, second) ==
    LET total_amount == ReduceAmount(processedExpenses, 0)
        total_count == Len(processedExpenses)
    IN  [total_amount |-> total_amount,
         total_count |-> total_count,
         average_amount |-> AverageAmount(total_amount, total_count),
         by_category |-> Breakdown(processedExpenses, "category", EmptyRecord),
         by_payment_method |->
             Breakdown(processedExpenses, "payment_method", EmptyRecord),
         period |-> Period(processedExpenses, input, first, second)]

\* tick: the clock moves on between the two new Date() calls of the empty case
getExpenseSummary(input, tick) ==
    LET rows == RowsOf(SelectWhere(SummaryConditions(input)))
        processedExpenses == [i \in DOMAIN rows |-> ToExpense(rows[i])]
        readsBoth == /\ Len(processedExpenses) = 0
                     /\ ~Has(input.start_date)
                     /\ ~Has(input.end_date)
    IN  /\ Callable("getExpenseSummary", input)
        /\ tick = 1 => readsBoth /\ appNow < MaxTime
        /\ ret' = [op |-> "getExpenseSummary", input |-> input, ok |-> TRUE,
                   value |-> Summary(processedExpenses, input,
                                     appNow, appNow + tick)]
        /\ appNow' = appNow + tick
        /\ UNCHANGED <<client, expenses, nextId, dbNow, ct, upd>>

\* time passes on the store's clock
DbTick ==
    /\ dbNow < MaxTime
    /\ dbNow' = dbNow + 1
    /\ UNCHANGED <<client, expenses, nextId, appNow, ret, ct, upd>>

\* time passes on the handler's clock
AppTick ==
    /\ appNow < MaxTime
    /\ appNow' = appNow + 1
    /\ UNCHANGED <<client, expenses, nextId, dbNow, ret, ct, upd>>

---------------------------------------------------------------------------
(* getCategoryTotals *)

\* TotalsConditions without the end date
TotalsConditionsNoEnd(startDate, endDate) ==
    IF Has(startDate) THEN <<gte("date", Val(startDate))>> ELSE <<>>

\* the conditions array for date filtering
TotalsConditions(startDate, endDate) ==
    (IF Has(startDate) THEN <<gte("date", Val(startDate))>> ELSE <<>>)
    \o (IF Has(endDate) THEN <<lte("date", Val(endDate))>> ELSE <<>>)

\* sum(amount) over a non-empty set of rows, a numeric
RECURSIVE SqlSum(_)
SqlSum(S) ==
    IF S = {} THEN 0
    ELSE LET e == CHOOSE x \in S : TRUE IN e.amount + SqlSum(S \ {e})

\* select category, sum(amount), count(*) ... group by category: one row a group
CategoryGroups(rows) ==
    {[category |-> c,
      total_amount |-> SqlSum({e \in rows : e.category = c}),
      count |-> Cardinality({e \in rows : e.category = c})] :
        c \in {e.category : e \in rows}}

\* the orders in which the store may return a set of rows
Orderings(S) == {s \in [1..Cardinality(S) -> S] : Range(s) = S}

\* select sum(amount): one row, whose total is NULL (absent) over no rows
GrandTotalRow(rows) ==
    [total |-> IF rows = {} THEN Absent ELSE Some(SqlSum(rows))]

\* parseFloat(grandTotalResult[0]?.total || '0')
GrandTotal(grandTotalResult) ==
    IF Has(grandTotalResult.total)
    THEN ParseFloat(Val(grandTotalResult.total)) ELSE 0

\* Math.round(n / d), n >= 0 and d > 0: the nearest integer, halves upwards
MathRound(n, d) == (2 * n + d) \div (2 * d)

\* grandTotal > 0 ? (totalAmount / grandTotal) * 100 : 0, then
\* Math.round(percentage * 100) / 100, counted in hundredths of a percent
Percentage(totalAmount, grandTotal) ==
    IF grandTotal > 0 THEN MathRound(totalAmount * 10000, grandTotal) ELSE 0

\* categoryResults.map(...)
CategoryTotalOf(result, grandTotal) ==
    LET totalAmount == ParseFloat(result.total_amount)
    IN  [category |-> result.category,
         total_amount |-> totalAmount,
         count |-> result.count,
         percentage |-> Percentage(totalAmount, grandTotal)]

\* SortByTotalDesc with the comparator's operands exchanged
RECURSIVE SortByTotalAsc(_, _)
SortByTotalAsc(todo, sorted) ==
    IF todo = <<>> THEN sorted
    ELSE LET x == Head(todo)
             k == Cardinality({i \in DOMAIN sorted :
                                  sorted[i].total_amount <= x.total_amount})
         IN  SortByTotalAsc(Tail(todo),
                 SubSeq(sorted, 1, k) \o <<x>> \o SubSeq(sorted, k + 1, Len(sorted)))

\* Array.prototype.sort with (a, b) => b.total_amount - a.total_amount: stable
RECURSIVE SortByTotalDesc(_, _)
SortByTotalDesc(todo, sorted) ==
    IF todo = <<>> THEN sorted
    ELSE LET x == Head(todo)
             k == Cardinality({i \in DOMAIN sorted :
                                  sorted[i].total_amount >= x.total_amount})
         IN  SortByTotalDesc(Tail(todo),
                 SubSeq(sorted, 1, k) \o <<x>> \o SubSeq(sorted, k + 1, Len(sorted)))

TotalsInputs == [startDate : Opt(Dates), endDate : Opt(Dates)]

\* up to the first await: the category totals query
getCategoryTotalsQuery(startDate, endDate) ==
    /\ Taken
    /\ ct.pc = "idle"
    /\ \E categoryResults \in
            Orderings(CategoryGroups(SelectWhere(TotalsConditions(startDate, endDate)))) :
          ct' = [pc |-> "grandTotal", startDate |-> startDate, endDate |-> endDate,
                 categoryResults |-> categoryResults, interleaved |-> 0]
    /\ UNCHANGED <<client, expenses, nextId, dbNow, appNow, ret, upd>>

\* from the second await to the return: the grand total query, the percentages, the sort
getCategoryTotalsReturn ==
    /\ Taken
    /\ ct.pc = "grandTotal"
    /\ LET grandTotalResult ==
               GrandTotalRow(SelectWhere(TotalsConditions(ct.startDate, ct.endDate)))
           grandTotal == GrandTotal(grandTotalResult)
           categoryTotals ==
               [i \in DOMAIN ct.categoryResults |->
                   CategoryTotalOf(ct.categoryResults[i], grandTotal)]
       IN  ret' = [op |-> "getCategoryTotals",
                   input |-> [startDate |-> ct.startDate, endDate |-> ct.endDate],
                   ok |-> TRUE,
                   value |-> SortByTotalDesc(categoryTotals, <<>>)]
    /\ ct' = IdleCt
    /\ UNCHANGED <<client, expenses, nextId, dbNow, appNow, upd>>

---------------------------------------------------------------------------
(* getMonthlySummaries *)

\* the instant of a wall clock reading (monthIndex from 0, day from 1)
Date(year, monthIndex, day, hours, minutes, seconds) ==
    ((((((year * 12 + monthIndex) * 31 + (day - 1)) * 24 + hours) * 60
        + minutes) * 60) + seconds) * TicksPerSecond

\* hours that the process's local time may be ahead of the store's (UTC)
TimezoneOffsets == {0, 1}

\* new Date(year, monthIndex, day, ...): the arguments are local time
LocalDate(year, monthIndex, day, hours, minutes, seconds, offset) ==
    Date(year, monthIndex, day, hours, minutes, seconds)
        - offset * 3600 * TicksPerSecond

\* new Date().getFullYear(): the year of the local wall clock
GetFullYear(now, offset) ==
    (now + offset * 3600 * TicksPerSecond)
        \div (12 * 31 * 24 * 3600 * TicksPerSecond)

\* EXTRACT(YEAR FROM date)::int and EXTRACT(MONTH FROM date)::int
ExtractYear(date) == date \div (12 * 31 * 24 * 3600 * TicksPerSecond)
ExtractMonth(date) == ((date \div (31 * 24 * 3600 * TicksPerSecond)) % 12) + 1

\* ... group by year, month, category: one row a group
MonthlyGroups(rows) ==
    {[year |-> k[1], month |-> k[2], category |-> k[3],
      total_amount |-> SqlSum({e \in rows :
          <<ExtractYear(e.date), ExtractMonth(e.date), e.category>> = k}),
      count |-> Cardinality({e \in rows :
          <<ExtractYear(e.date), ExtractMonth(e.date), e.category>> = k})] :
        k \in {<<ExtractYear(e.date), ExtractMonth(e.date), e.category>> :
                  e \in rows}}

\* b comes no later than a
NotAfter(b, a) == b.year < a.year \/ (b.year = a.year /\ b.month <= a.month)

\* order by year desc, month desc: the orders the store may return the groups in
MonthlyOrderings(S) ==
    {s \in Orderings(S) :
        \A i, j \in DOMAIN s : i < j => NotAfter(s[j], s[i])}

\* createEmptyCategoryRecord without its last key
createEmptyCategoryRecordShort ==
    [c \in {expenseCategorySchema[i] : i \in 1..3} |->
        [total_amount |-> 0, count |-> 0]]

createEmptyCategoryRecord ==
    [c \in Range(expenseCategorySchema) |-> [total_amount |-> 0, count |-> 0]]

\* the for loop over results; monthlyMap is the Map's values in insertion order
RECURSIVE MonthlyMap(_, _)
MonthlyMap(results, monthlyMap) ==
    IF results = <<>> THEN monthlyMap
    ELSE LET row == Head(results)
             has == \E i \in DOMAIN monthlyMap :
                       /\ monthlyMap[i].year = row.year
                       /\ monthlyMap[i].month = row.month
             map == IF has THEN monthlyMap
                    ELSE Append(monthlyMap,
                             [year |-> row.year, month |-> row.month,
                              total_amount |-> 0, total_count |-> 0,
                              by_category |-> createEmptyCategoryRecord])
             k == CHOOSE i \in DOMAIN map :
                      map[i].year = row.year /\ map[i].month = row.month
             categoryAmount == ParseFloat(row.total_amount)
         IN  MonthlyMap(Tail(results),
                 [map EXCEPT
                     ![k].total_amount = @ + categoryAmount,
                     ![k].total_count = @ + row.count,
                     ![k].by_category[row.category] =
                         [total_amount |-> categoryAmount, count |-> row.count]])

\* .sort((a, b) => a.year !== b.year ? b.year - a.year : b.month - a.month): stable
RECURSIVE SortByMonthDesc(_, _)
SortByMonthDesc(todo, sorted) ==
    IF todo = <<>> THEN sorted
    ELSE LET x == Head(todo)
             k == Cardinality({i \in DOMAIN sorted : NotAfter(x, sorted[i])})
         IN  SortByMonthDesc(Tail(todo),
                 SubSeq(sorted, 1, k) \o <<x>> \o SubSeq(sorted, k + 1, Len(sorted)))

\* .slice(0, limit), limit a positive integer
Slice(s, limit) == SubSeq(s, 1, IF limit < Len(s) THEN limit ELSE Len(s))

\* limit: number = 12
DefaultLimit == 12

MonthlyInputs == [year : Opt(1..MaxYear), limit : Opt({1, DefaultLimit})]

\* offset: the time zone the process runs in
getMonthlySummaries(year, limit, offset) ==
    /\ Taken
    /\ LET targetYear == IF Has(year) THEN Val(year) ELSE GetFullYear(appNow, offset)
           startDate == LocalDate(targetYear, 0, 1, 0, 0, 0, offset)
           endDate == LocalDate(targetYear, 11, 31, 23, 59, 59, offset)
           selected == SelectWhere(<<gte("date", startDate), lte("date", endDate)>>)
       IN  \E results \in MonthlyOrderings(MonthlyGroups(selected)) :
              ret' = [op |-> "getMonthlySummaries",
                      input |-> [year |-> year, limit |-> limit],
                      targetYear |-> targetYear,
                      offset |-> offset,
                      ok |-> TRUE,
                      value |-> Slice(SortByMonthDesc(MonthlyMap(results, <<>>), <<>>),
                                      IF Has(limit) THEN Val(limit) ELSE DefaultLimit)]
    /\ UNCHANGED <<client, expenses, nextId, dbNow, appNow, ct, upd>>

---------------------------------------------------------------------------
(* getExpenses, getExpenseById *)

\* z.number().positive() of the filter's amount bounds: whole cents
FilterAmounts == {10 * k : k \in 1..MaxFilterAmount}

ExpenseFilters ==
    [category : Opt(Categories), payment_method : Opt(Methods),
     start_date : Opt(Dates), end_date : Opt(Dates),
     min_amount : Opt(FilterAmounts), max_amount : Opt(FilterAmounts)]

\* FilterConditions with gte in place of lte on max_amount
FilterConditionsMaxAsMin(filter) ==
    (IF Has(filter.category)
        THEN <<eq("category", Val(filter.category))>> ELSE <<>>)
    \o (IF Has(filter.payment_method)
        THEN <<eq("payment_method", Val(filter.payment_method))>> ELSE <<>>)
    \o (IF Has(filter.start_date)
        THEN <<gte("date", Val(filter.start_date))>> ELSE <<>>)
    \o (IF Has(filter.end_date)
        THEN <<lte("date", Val(filter.end_date))>> ELSE <<>>)
    \o (IF Has(filter.min_amount)
        THEN <<gteNumeric("amount", Val(filter.min_amount))>> ELSE <<>>)
    \o (IF Has(filter.max_amount)
        THEN <<gteNumeric("amount", Val(filter.max_amount))>> ELSE <<>>)

\* the conditions array; a call without filter is the filter with every field absent
FilterConditions(filter) ==
    (IF Has(filter.category)
        THEN <<eq("category", Val(filter.category))>> ELSE <<>>)
    \o (IF Has(filter.payment_method)
        THEN <<eq("payment_method", Val(filter.payment_method))>> ELSE <<>>)
    \o (IF Has(filter.start_date)
        THEN <<gte("date", Val(filter.start_date))>> ELSE <<>>)
    \o (IF Has(filter.end_date)
        THEN <<lte("date", Val(filter.end_date))>> ELSE <<>>)
    \o (IF Has(filter.min_amount)
        THEN <<gteNumeric("amount", Val(filter.min_amount))>> ELSE <<>>)
    \o (IF Has(filter.max_amount)
        THEN <<lteNumeric("amount", Val(filter.max_amount))>> ELSE <<>>)

\* order by date desc: the orders the store may return the rows in
DateDescOrderings(S) ==
    {s \in Orderings(S) : \A i, j \in DOMAIN s : i < j => s[i].date >= s[j].date}

getExpenses(filter) ==
    /\ Taken
    /\ \E results \in DateDescOrderings(SelectWhere(FilterConditions(filter))) :
          ret' = [op |-> "getExpenses", input |-> filter, ok |-> TRUE,
                  value |-> [i \in DOMAIN results |-> ToExpense(results[i])]]
    /\ UNCHANGED <<client, expenses, nextId, dbNow, appNow, ct, upd>>

\* the expense of that id, or null (absent) when the store has none
getExpenseById(id) ==
    /\ Taken
    /\ LET results == SelectWhere(<<eq("id", id)>>)
       IN  ret' = [op |-> "getExpenseById", input |-> id, ok |-> TRUE,
                   value |-> IF results = {} THEN Absent
                             ELSE Some(ToExpense(CHOOSE e \in results : TRUE))]
    /\ UNCHANGED <<client, expenses, nextId, dbNow, appNow, ct, upd>>

\* the response goes to its caller
Respond ==
    /\ ~Taken
    /\ ret' = NoRet
    /\ UNCHANGED <<client, expenses, nextId, dbNow, appNow, ct, upd>>

---------------------------------------------------------------------------
(* The client: App, its handlers and the calls they have in flight *)

\* useState<ExpenseFilter>({})
NoFilter ==
    [category |-> Absent, payment_method |-> Absent, start_date |-> Absent,
     end_date |-> Absent, min_amount |-> Absent, max_amount |-> Absent]

\* App before its first effect. calls[n] is the n-th call App has made, from its
\* request to the end of the handler that awaits it; requested is the number of
\* the last loadExpenses call, displayed that of the one whose result is shown
NoClient ==
    [mounted |-> FALSE, expenses |-> <<>>, filters |-> NoFilter,
     totalExpenses |-> 0, calls |-> [n \in 1..MaxCalls |-> NoCall],
     issued |-> 0, requested |-> 0, displayed |-> 0]

\* the filters, the new expenses and the edits of the user
ClientFilters ==
    {NoFilter, [NoFilter EXCEPT !.category = Some(expenseCategorySchema[1])]}

ClientCreateInputs ==
    {input \in CreateInputs :
        /\ input.amount = 10 /\ input.date = 1
        /\ input.payment_method = paymentMethodSchema[1]}

ClientUpdateInputs ==
    {input \in UpdateInputs :
        /\ input.amount = Some(10 * MaxAmount) /\ input.date = Some(1)
        /\ Has(input.description)
        /\ input.category = Some(expenseCategorySchema[1])
        /\ input.payment_method = Some(paymentMethodSchema[1])}

\* App can make k more calls; the response slot is empty, so that the response
\* to a call is computed after the call
CanCall(k) ==
    /\ Taken
    /\ client.mounted
    /\ client.issued + k <= MaxCalls

\* trpc.<kind>.query(input) or .mutate(input), up to the await; closure is what
\* the handler's closure holds of the render it was created in
Call(c, kind, input, closure) ==
    [c EXCEPT !.issued = @ + 1,
              !.calls[c.issued + 1] =
                  [kind |-> kind, input |-> input, closure |-> closure,
                   reply |-> NoRet]]

\* the response of the server to call n travels to the client
Reply(n) ==
    /\ client.calls[n].kind # "none"
    /\ client.calls[n].reply.op = "none"
    /\ ret.op = client.calls[n].kind
    /\ ret.input = client.calls[n].input
    /\ client' = [client EXCEPT !.calls[n].reply = ret]
    /\ ret' = NoRet
    /\ UNCHANGED <<expenses, nextId, dbNow, appNow, ct, upd>>

\* call n, a call of that kind, waits for the server to handle it
Awaited(n, kind) ==
    /\ client.calls[n].kind = kind
    /\ client.calls[n].reply.op = "none"

\* the promise of call n, a call of that kind, has settled
Settled(n, kind) ==
    /\ client.calls[n].kind = kind
    /\ client.calls[n].reply.op # "none"

\* loadExpenses up to its await: trpc.getExpenses.query(filters)
loadExpenses(c, filters) ==
    [Call(c, "getExpenses", filters, <<>>) EXCEPT !.requested = c.issued + 1]

\* loadExpenses after its await
loadExpensesResult(n) ==
    /\ Settled(n, "getExpenses")
    /\ LET result == client.calls[n].reply.value
           total == ReduceAmount(result, 0)
       IN  client' = [client EXCEPT !.expenses = result,
                                    !.totalExpenses = total,
                                    !.displayed = n,
                                    !.calls[n] = NoCall]
    /\ UNCHANGED <<expenses, nextId, dbNow, appNow, ret, ct, upd>>

\* the effect of the first render
useEffect ==
    /\ Taken
    /\ ~client.mounted
    /\ client.issued < MaxCalls
    /\ client' = loadExpenses([client EXCEPT !.mounted = TRUE], client.filters)
    /\ UNCHANGED <<expenses, nextId, dbNow, appNow, ret, ct, upd>>

\* setFilters(newFilters), and the effect of the render that follows: the new
\* filters object makes a new loadExpenses, which the effect calls
handleFiltersChange(newFilters) ==
    /\ CanCall(1)
    /\ client' = loadExpenses([client EXCEPT !.filters = newFilters], newFilters)
    /\ UNCHANGED <<expenses, nextId, dbNow, appNow, ret, ct, upd>>

\* setFilters({}), and the effect of the render that follows
clearFilters ==
    /\ CanCall(1)
    /\ client' = loadExpenses([client EXCEPT !.filters = NoFilter], NoFilter)
    /\ UNCHANGED <<expenses, nextId, dbNow, appNow, ret, ct, upd>>

\* handleCreateExpense up to its await: trpc.createExpense.mutate(data)
handleCreateExpense(data) ==
    /\ CanCall(1)
    /\ client' = Call(client, "createExpense", data, <<>>)
    /\ UNCHANGED <<expenses, nextId, dbNow, appNow, ret, ct, upd>>

\* handleCreateExpense after its await
handleCreateExpenseResult(n) ==
    /\ Settled(n, "createExpense")
    /\ LET newExpense == client.calls[n].reply.value
       IN  client' = [client EXCEPT
                         !.expenses = <<newExpense>> \o @,
                         !.totalExpenses = @ + newExpense.amount,
                         !.calls[n] = NoCall]
    /\ UNCHANGED <<expenses, nextId, dbNow, appNow, ret, ct, upd>>

\* the positions of a list that hold the expense of an id
Find(list, id) == {i \in DOMAIN list : list[i].id = id}

\* handleDelete of the item of a displayed expense, whose button is enabled, and
\* handleDeleteExpense up to its await: trpc.deleteExpense.mutate(id); the
\* handler's closure holds the expenses of the render it was created in
handleDeleteExpense(id) ==
    /\ CanCall(1)
    /\ Find(client.expenses, id) # {}
    /\ \A n \in 1..MaxCalls :
          client.calls[n].kind = "deleteExpense" => client.calls[n].input # id
    /\ client' = Call(client, "deleteExpense", id, client.expenses)
    /\ UNCHANGED <<expenses, nextId, dbNow, appNow, ret, ct, upd>>

\* handleDeleteExpense after its await
handleDeleteExpenseResult(n) ==
    /\ Settled(n, "deleteExpense")
    /\ LET id == client.calls[n].input
           closure == client.calls[n].closure
           found == Find(closure, id)
           deletedExpense == closure[MinOf(found)]
       IN  client' = [client EXCEPT
                         !.expenses = SelectSeq(@, LAMBDA expense : expense.id # id),
                         !.totalExpenses =
                             IF found # {} THEN @ - deletedExpense.amount ELSE @,
                         !.calls[n] = NoCall]
    /\ UNCHANGED <<expenses, nextId, dbNow, appNow, ret, ct, upd>>

\* handleUpdate of the item of a displayed expense, up to its await:
\* trpc.updateExpense.mutate(editData); onUpdate is the handleUpdateExpense of the
\* render the item was created in, with the loadExpenses and the filters of it
handleUpdate(editData) ==
    /\ CanCall(2)
    /\ upd.pc = "idle"
    /\ Find(client.expenses, editData.id) # {}
    /\ client' = Call(client, "updateExpense", editData, client.filters)
    /\ UNCHANGED <<expenses, nextId, dbNow, appNow, ret, ct, upd>>

\* handleUpdate after its await: on success onUpdate(updatedExpense), which is
\* handleUpdateExpense up to the await of its loadExpenses; on an error nothing
handleUpdateExpense(n) ==
    /\ Settled(n, "updateExpense")
    /\ LET reply == client.calls[n].reply
           updatedExpense == reply.value
           done == [client EXCEPT !.calls[n] = NoCall]
       IN  client' =
               IF reply.ok
               THEN loadExpenses(
                        [done EXCEPT !.expenses =
                            [i \in DOMAIN @ |->
                                IF @[i].id = updatedExpense.id
                                THEN updatedExpense ELSE @[i]]],
                        client.calls[n].closure)
               ELSE done
    /\ UNCHANGED <<expenses, nextId, dbNow, appNow, ret, ct, upd>>

---------------------------------------------------------------------------
(* The store and the summary handler *)

Init ==
    /\ expenses = {}
    /\ nextId = 1
    /\ dbNow = 1
    /\ appNow = 1
    /\ ret = NoRet
    /\ ct = IdleCt
    /\ upd = IdleUpd
    /\ client = NoClient

Next ==
    \/ \E input \in CreateInputs : createExpense(input)
    \/ \E id \in 1..MaxId : deleteExpense(id)
    \/ \E input \in SummaryInputs, tick \in {0, 1} : getExpenseSummary(input, tick)
    \/ AppTick
    \/ Respond

Spec == Init /\ [][Next]_vars

---------------------------------------------------------------------------
(* The store and the category totals handler, with other callers' statements *)
(* between its two queries                                                   *)

TotalsCreateInputs ==
    {input \in CreateInputs : input.payment_method = paymentMethodSchema[1]}

\* the updates that change what a category total sums: an amount or a category
TotalsUpdateInputs ==
    {input \in UpdateInputs :
        /\ ~Has(input.date) /\ ~Has(input.description) /\ ~Has(input.payment_method)
        /\ Has(input.amount) # Has(input.category)}

NextTotals ==
    \/ \E input \in TotalsCreateInputs : createExpense(input)
    \/ \E id \in 1..MaxId : deleteExpense(id)
    \/ \E input \in TotalsInputs :
          getCategoryTotalsQuery(input.startDate, input.endDate)
    \/ getCategoryTotalsReturn
    \/ \E input \in TotalsUpdateInputs : updateExpenseCheck(input)
    \/ updateExpenseUpdate
    \/ Respond

SpecTotals == Init /\ [][NextTotals]_vars

---------------------------------------------------------------------------
(* The store and the monthly summaries handler *)

\* the first instant of each year asked for, and the last second of each year:
\* its first instant and the instant one tick later
MonthlyDates ==
    {Date(y, 0, 1, 0, 0, 0) : y \in 1..MaxYear}
    \cup {Date(y, 11, 31, 23, 59, 59) + t : y \in 0..MaxYear, t \in {0, 1}}

MonthlyCreateInputs ==
    [amount : AmountInputs, date : MonthlyDates, description : Descriptions,
     category : Categories, payment_method : {paymentMethodSchema[1]}]

NextMonthly ==
    \/ \E input \in MonthlyCreateInputs : createExpense(input)
    \/ \E id \in 1..MaxId : deleteExpense(id)
    \/ \E input \in MonthlyInputs, offset \in TimezoneOffsets :
          getMonthlySummaries(input.year, input.limit, offset)
    \/ Respond

SpecMonthly == Init /\ [][NextMonthly]_vars

---------------------------------------------------------------------------
(* The store and its readers *)

NextExpenses ==
    \/ \E input \in CreateInputs : createExpense(input)
    \/ \E id \in 1..MaxId : deleteExpense(id)
    \/ \E filter \in ExpenseFilters : getExpenses(filter)
    \/ \E id \in 1..MaxId : getExpenseById(id)
    \/ \E input \in SummaryInputs : getExpenseSummary(input, 0)
    \/ Respond

SpecExpenses == Init /\ [][NextExpenses]_vars

---------------------------------------------------------------------------
(* The store and its writers *)

\* the updates of every choice of fields, a field present having the last value
\* of its domain, the amount also the value below half a cent
CrudUpdateInputs ==
    {input \in UpdateInputs :
        /\ Has(input.amount) => Val(input.amount) \in {4, 10 * MaxAmount}
        /\ Has(input.date) => Val(input.date) = MaxDate
        /\ Has(input.category) => Val(input.category) = expenseCategorySchema[NumCats]
        /\ Has(input.payment_method) =>
               Val(input.payment_method) = paymentMethodSchema[NumPms]}

NextCrud ==
    \/ \E input \in CreateInputs : createExpense(input)
    \/ \E id \in 1..MaxId : deleteExpense(id)
    \/ \E input \in CrudUpdateInputs : updateExpenseCheck(input)
    \/ updateExpenseUpdate
    \/ Respond

SpecCrud == Init /\ [][NextCrud]_vars

---------------------------------------------------------------------------
(* The store, its writers and the two clocks *)

\* one expense a create, one field an update: the timestamps are what varies
ClockCreateInputs ==
    {input \in CreateInputs :
        /\ input.amount = 10 /\ input.date = 1
        /\ input.category = expenseCategorySchema[1]
        /\ input.payment_method = paymentMethodSchema[1]}

ClockUpdateInputs ==
    {input \in UpdateInputs :
        /\ Has(input.description)
        /\ ~Has(input.amount) /\ ~Has(input.date)
        /\ ~Has(input.category) /\ ~Has(input.payment_method)}

NextClocks ==
    \/ \E input \in ClockCreateInputs : createExpense(input)
    \/ \E input \in ClockUpdateInputs : updateExpenseCheck(input)
    \/ updateExpenseUpdate
    \/ DbTick
    \/ AppTick
    \/ Respond

SpecClocks == Init /\ [][NextClocks]_vars

---------------------------------------------------------------------------
(* The store and the client that changes its filters *)

NextFilters ==
    \/ \E input \in ClientCreateInputs : createExpense(input)
    \/ \E filter \in ClientFilters : getExpenses(filter)
    \/ Respond
    \/ useEffect
    \/ \E newFilters \in ClientFilters : handleFiltersChange(newFilters)
    \/ clearFilters
    \/ \E n \in 1..MaxCalls : Reply(n)
    \/ \E n \in 1..MaxCalls : loadExpensesResult(n)

SpecFilters == Init /\ [][NextFilters]_vars

---------------------------------------------------------------------------
(* The client with all its handlers, and the server that answers its calls *)

NextClient ==
    \/ \E n \in 1..MaxCalls :
          Awaited(n, "createExpense") /\ createExpense(client.calls[n].input)
    \/ \E n \in 1..MaxCalls :
          Awaited(n, "deleteExpense") /\ deleteExpense(client.calls[n].input)
    \/ \E n \in 1..MaxCalls :
          Awaited(n, "updateExpense") /\ updateExpenseCheck(client.calls[n].input)
    \/ updateExpenseUpdate
    \/ \E n \in 1..MaxCalls :
          Awaited(n, "getExpenses") /\ getExpenses(client.calls[n].input)
    \/ useEffect
    \/ \E newFilters \in ClientFilters : handleFiltersChange(newFilters)
    \/ \E data \in ClientCreateInputs : handleCreateExpense(data)
    \/ \E id \in 1..MaxId : handleDeleteExpense(id)
    \/ \E editData \in ClientUpdateInputs : handleUpdate(editData)
    \/ \E n \in 1..MaxCalls : Reply(n)
    \/ \E n \in 1..MaxCalls : loadExpensesResult(n)
    \/ \E n \in 1..MaxCalls : handleCreateExpenseResult(n)
    \/ \E n \in 1..MaxCalls : handleDeleteExpenseResult(n)
    \/ \E n \in 1..MaxCalls : handleUpdateExpense(n)

SpecClient == Init /\ [][NextClient]_vars

---------------------------------------------------------------------------
(* Properties of getExpenseSummary, under Spec.  ret holds the return value  *)
(* of the last completed call, and every statement that changes the table   *)
(* replaces ret, so expenses is the table the call in ret has read.         *)

InBounds(date, lo, hi) ==
    /\ Has(lo) => date >= Val(lo)
    /\ Has(hi) => date <= Val(hi)

\* the expenses that satisfy every predicate the filter provides
Matching(filter) ==
    {e \in expenses :
        /\ InBounds(e.date, filter.start_date, filter.end_date)
        /\ Has(filter.category) => e.category = Val(filter.category)
        /\ Has(filter.payment_method) => e.payment_method = Val(filter.payment_method)}

\* the sum of amount over a set of expenses
RECURSIVE AmountOver(_)
AmountOver(S) ==
    IF S = {} THEN 0
    ELSE LET e == CHOOSE x \in S : TRUE
         IN  ParseFloat(e.amount) + AmountOver(S \ {e})

Summarised == ret.op = "getExpenseSummary"

\* C1: total_amount is the sum of amount, and total_count the number, of exactly
\* the expenses that satisfy every predicate of the filter (inclusive date bounds,
\* an omitted predicate imposes nothing)
C1_SumConsistency ==
    Summarised =>
        /\ ret.value.total_amount = AmountOver(Matching(ret.input))
        /\ ret.value.total_count = Cardinality(Matching(ret.input))

\* a summary under all four predicates that selects one of two stored expenses,
\* the other one lying on the date bound's far side
C1_Witness ==
    /\ Summarised
    /\ Has(ret.input.start_date) /\ Has(ret.input.end_date)
    /\ Has(ret.input.category) /\ Has(ret.input.payment_method)
    /\ Val(ret.input.start_date) = Val(ret.input.end_date)
    /\ Cardinality(expenses) = 2
    /\ ret.value.total_count = 1
    /\ ret.value.total_amount > 0

\* the breakdown the claim describes for one key of the selected set
BreakdownOver(S, key) ==
    [k \in {e[key] : e \in S} |->
        [total_amount |-> AmountOver({e \in S : e[key] = k}),
         count |-> Cardinality({e \in S : e[key] = k})]]

\* C2: by_category and by_payment_method have a key for exactly the categories and
\* payment methods that occur in the selected set, each mapped to the sum and the
\* count of the selected expenses with that key; no key has zero values
C2_Breakdowns ==
    Summarised =>
        /\ ret.value.by_category = BreakdownOver(Matching(ret.input), "category")
        /\ ret.value.by_payment_method =
               BreakdownOver(Matching(ret.input), "payment_method")
        /\ \A k \in DOMAIN ret.value.by_category : ret.value.by_category[k].count > 0
        /\ \A k \in DOMAIN ret.value.by_payment_method :
               ret.value.by_payment_method[k].count > 0

\* two selected expenses of one category and two payment methods, a second category
\* being absent from by_category
C2_Witness ==
    /\ Summarised
    /\ ret.value.total_count = 2
    /\ Cardinality(DOMAIN ret.value.by_category) = 1
    /\ Cardinality(DOMAIN ret.value.by_payment_method) = 2
    /\ \E k \in DOMAIN ret.value.by_category : ret.value.by_category[k].count = 2
    /\ \E c \in Categories : c \notin DOMAIN ret.value.by_category

\* C3: over an empty selected set the summary is all zero, both mappings are
\* empty, and the call returns normally
C3_EmptyZeroLaw ==
    Summarised /\ Matching(ret.input) = {} =>
        /\ ret.ok
        /\ ret.value.total_amount = 0
        /\ ret.value.total_count = 0
        /\ ret.value.average_amount = Zero
        /\ DOMAIN ret.value.by_category = {}
        /\ DOMAIN ret.value.by_payment_method = {}

\* a filter that matches nothing in a table that holds expenses
C3_Witness ==
    /\ Summarised
    /\ expenses # {}
    /\ Matching(ret.input) = {}
    /\ ret.value.total_count = 0

\* a step that is a getExpenseSummary call returning ret'
SummaryCall ==
    /\ ret'.op = "getExpenseSummary"
    /\ \E tick \in {0, 1} : getExpenseSummary(ret'.input, tick)

\* C4: the period is the least and the greatest date of a non-empty selected set;
\* over an empty one each bound is the filter's bound if given and else the
\* current moment, one and the same moment for both bounds
C4_Period ==
    [][SummaryCall =>
        LET selected == Matching(ret'.input)
            period == ret'.value.period
        IN  IF selected # {}
            THEN /\ period.start_date = MinOf({e.date : e \in selected})
                 /\ period.end_date = MaxOf({e.date : e \in selected})
            ELSE \E moment \in {appNow, appNow'} :
                    /\ period.start_date =
                           IF Has(ret'.input.start_date)
                           THEN Val(ret'.input.start_date) ELSE moment
                    /\ period.end_date =
                           IF Has(ret'.input.end_date)
                           THEN Val(ret'.input.end_date) ELSE moment]_vars

\* C5: a second call with the same filter on the same table returns what the
\* first returned, in every field, whenever it is made, and changes no expense
C5_Deterministic ==
    [][Summarised /\ SummaryCall /\ ret'.input = ret.input =>
        /\ ret'.value = ret.value
        /\ expenses' = expenses]_vars


\* C5, amended: the second call returns what the first returned in every field,
\* but for a period bound that the filter does not give over an empty selected
\* set, which is the time of each call; neither call changes an expense
C5_DeterministicButClock ==
    [][Summarised /\ SummaryCall /\ ret'.input = ret.input =>
        /\ expenses' = expenses
        /\ ret'.value.total_amount = ret.value.total_amount
        /\ ret'.value.total_count = ret.value.total_count
        /\ ret'.value.average_amount = ret.value.average_amount
        /\ ret'.value.by_category = ret.value.by_category
        /\ ret'.value.by_payment_method = ret.value.by_payment_method
        /\ Matching(ret.input) # {} \/ Has(ret.input.start_date) =>
               ret'.value.period.start_date = ret.value.period.start_date
        /\ Matching(ret.input) # {} \/ Has(ret.input.end_date) =>
               ret'.value.period.end_date = ret.value.period.end_date]_vars

\* the first call has returned over an empty selected set with one bound given
\* by the filter, the clock has moved on since, and the table is as it was read:
\* the second call of the claim is the next step
C5_Witness ==
    /\ Summarised
    /\ expenses # {}
    /\ Matching(ret.input) = {}
    /\ Has(ret.input.start_date) /\ ~Has(ret.input.end_date)
    /\ ret.value.period.end_date < appNow
    /\ ENABLED getExpenseSummary(ret.input, 0)

---------------------------------------------------------------------------
(* Properties of getCategoryTotals, under SpecTotals *)

\* the expenses within the inclusive date bounds
Within(startDate, endDate) ==
    {e \in expenses : InBounds(e.date, startDate, endDate)}

TotalsReturned == ret.op = "getCategoryTotals"

\* the step of the category totals query, and the step of the return
TotalsQueryStep == ct.pc = "idle" /\ ct'.pc = "grandTotal"
TotalsReturnStep == ct.pc = "grandTotal" /\ ct'.pc = "idle"

\* C6: the call returns one entry for each category that has an expense within the
\* bounds when the category totals query runs, with the sum and the number of
\* those expenses, and no entry for any other category
C6_CategoryGroups ==
    [][/\ TotalsQueryStep =>
            LET selected == Within(ct'.startDate, ct'.endDate)
                rows == ct'.categoryResults
            IN  /\ \A c \in Range(expenseCategorySchema) :
                       Cardinality({i \in DOMAIN rows : rows[i].category = c})
                           = IF \E e \in selected : e.category = c THEN 1 ELSE 0
                /\ \A i \in DOMAIN rows :
                       LET group == {e \in selected : e.category = rows[i].category}
                       IN  /\ ParseFloat(rows[i].total_amount) = AmountOver(group)
                           /\ rows[i].count = Cardinality(group)
       /\ TotalsReturnStep =>
            /\ Len(ret'.value) = Len(ct.categoryResults)
            /\ \A i \in DOMAIN ct.categoryResults :
                   \E j \in DOMAIN ret'.value :
                       /\ ret'.value[j].category = ct.categoryResults[i].category
                       /\ ret'.value[j].total_amount =
                              ParseFloat(ct.categoryResults[i].total_amount)
                       /\ ret'.value[j].count = ct.categoryResults[i].count]_vars

\* a call with both bounds that returns one entry of one expense while the table
\* holds a second expense outside the bounds
C6_Witness ==
    /\ TotalsReturned
    /\ Has(ret.input.startDate) /\ Has(ret.input.endDate)
    /\ Cardinality(expenses) = 2
    /\ Cardinality(Within(ret.input.startDate, ret.input.endDate)) = 1
    /\ Len(ret.value) = 1
    /\ ret.value[1].count = 1
    /\ \E e \in Within(ret.input.startDate, ret.input.endDate) :
           /\ e.category = ret.value[1].category
           /\ ParseFloat(e.amount) = ret.value[1].total_amount

RECURSIVE SumOfTotals(_)
SumOfTotals(entries) ==
    IF entries = <<>> THEN 0
    ELSE Head(entries).total_amount + SumOfTotals(Tail(entries))

RECURSIVE SumOfPercentages(_)
SumOfPercentages(entries) ==
    IF entries = <<>> THEN 0
    ELSE Head(entries).percentage + SumOfPercentages(Tail(entries))

Abs(x) == IF x < 0 THEN -x ELSE x

\* C7: each returned percentage is total_amount / grand_total * 100 rounded to two
\* decimals, grand_total being the sum of the returned total_amount values
\* (stated where that sum is positive, so that the quotient exists)
C7_Percentage ==
    TotalsReturned =>
        LET grand_total == SumOfTotals(ret.value)
        IN  \A i \in DOMAIN ret.value :
                grand_total > 0 =>
                    2 * Abs(ret.value[i].percentage * grand_total
                            - 10000 * ret.value[i].total_amount) <= grand_total

\* C8: the percentages of a non-empty result sum to within 0.1 of 100
\* (stated for the results whose every total_amount is positive)
C8_PercentagesSum ==
    /\ TotalsReturned /\ Len(ret.value) > 0
    /\ \A i \in DOMAIN ret.value : ret.value[i].total_amount > 0
    => Abs(SumOfPercentages(ret.value) - 10000) <= 10

\* C9: whatever other callers do meanwhile, the call divides by the sum of the
\* groups it returns, so that no returned percentage exceeds 100
C9_Snapshot ==
    TotalsReturned =>
        \A i \in DOMAIN ret.value : ret.value[i].percentage <= 10000

\* C10: a call whose grand total query finds no expense within the bounds, so a
\* grand total of 0, returns the empty list, normally: no entry is returned with
\* a percentage computed from a grand total of 0
C10_ZeroGrandTotal ==
    [][TotalsReturnStep /\ Within(ct.startDate, ct.endDate) = {} =>
        /\ ret'.ok
        /\ ret'.value = <<>>]_vars

\* C11: the returned list is non-increasing in total_amount: of two adjacent
\* entries the earlier one's total_amount is at least the later one's
C11_Ordering ==
    TotalsReturned =>
        \A i \in DOMAIN ret.value :
            i < Len(ret.value) =>
                ret.value[i].total_amount >= ret.value[i + 1].total_amount

\* two categories with different totals, the greater one first, the category
\* first in the enumeration being the one of the smaller total
C11_Witness ==
    /\ TotalsReturned
    /\ Len(ret.value) = 2
    /\ ret.value[1].total_amount > ret.value[2].total_amount
    /\ ret.value[2].category = expenseCategorySchema[1]

---------------------------------------------------------------------------
(* Properties of getMonthlySummaries, under SpecMonthly *)

MonthlyReturned == ret.op = "getMonthlySummaries"

\* the call ran in a process whose local time is the store's
InUtc == ret.offset = 0

\* the call asked for at least twelve months, so that the limit truncates nothing
AllMonths == ~Has(ret.input.limit) \/ Val(ret.input.limit) >= 12

\* the expenses dated in a month of a year
InMonth(year, month) ==
    {e \in expenses : ExtractYear(e.date) = year /\ ExtractMonth(e.date) = month}

RECURSIVE SumOfCounts(_)
SumOfCounts(entries) ==
    IF entries = <<>> THEN 0
    ELSE Head(entries).total_count + SumOfCounts(Tail(entries))

C13_MonthlyTotals ==
    MonthlyReturned /\ InUtc /\ AllMonths =>
        /\ \A m \in 1..12 :
               LET S == InMonth(ret.targetYear, m)
                   found == {i \in DOMAIN ret.value :
                                /\ ret.value[i].year = ret.targetYear
                                /\ ret.value[i].month = m}
               IN  /\ Cardinality(found) = IF S = {} THEN 0 ELSE 1
                   /\ \A i \in found :
                          /\ ret.value[i].total_amount = AmountOver(S)
                          /\ ret.value[i].total_count = Cardinality(S)
        /\ \A i \in DOMAIN ret.value : ret.value[i].total_count >= 1

\* the months of a year that have an expense
MonthsOf(year) == {m \in 1..12 : InMonth(year, m) # {}}

\* C14: the call returns the min(limit, n) most recent of the n months of the target
\* year that have expenses, in strictly decreasing order; an omitted limit is 12
\* (stated for a process whose local time is the store's)
C14_MonthlyLimit ==
    MonthlyReturned /\ InUtc =>
        LET months == MonthsOf(ret.targetYear)
            n == Cardinality(months)
            limit == IF Has(ret.input.limit) THEN Val(ret.input.limit) ELSE 12
            returned == {ret.value[i].month : i \in DOMAIN ret.value}
        IN  /\ Len(ret.value) = IF limit < n THEN limit ELSE n
            /\ \A i \in DOMAIN ret.value : ret.value[i].year = ret.targetYear
            /\ returned \subseteq months
            /\ \A m \in months \ returned : \A r \in returned : m < r
            /\ \A i, j \in DOMAIN ret.value :
                   i < j => ret.value[i].month > ret.value[j].month

\* C15: the call counts the expenses dated within the target year, from its first
\* instant to its last, each in the entry of its month, and no other expense; every
\* entry is of the target year (stated for a process whose local time is the
\* store's)
C15_TargetYear ==
    MonthlyReturned /\ InUtc /\ AllMonths =>
        /\ \A i \in DOMAIN ret.value : ret.value[i].year = ret.targetYear
        /\ SumOfCounts(ret.value) =
               Cardinality({e \in expenses : ExtractYear(e.date) = ret.targetYear})
        /\ \A e \in expenses :
               ExtractYear(e.date) = ret.targetYear =>
                   \E i \in DOMAIN ret.value :
                       /\ ret.value[i].month = ExtractMonth(e.date)
                       /\ ret.value[i].by_category[e.category].count >= 1

---------------------------------------------------------------------------
(* Properties of getExpenses and getExpenseById, under SpecExpenses *)

ExpensesReturned == ret.op = "getExpenses"

\* the returned expense has the field values of the stored one
SameFields(expense, e) ==
    /\ expense.id = e.id
    /\ expense.amount = 10 * e.amount
    /\ expense.date = e.date
    /\ expense.description = e.description
    /\ expense.category = e.category
    /\ expense.payment_method = e.payment_method
    /\ expense.created_at = e.created_at
    /\ expense.updated_at = e.updated_at

\* the stored expenses that satisfy every predicate a filter provides
Satisfying(filter) ==
    {e \in expenses :
        /\ Has(filter.category) => e.category = Val(filter.category)
        /\ Has(filter.payment_method) => e.payment_method = Val(filter.payment_method)
        /\ Has(filter.start_date) => Val(filter.start_date) <= e.date
        /\ Has(filter.end_date) => e.date <= Val(filter.end_date)
        /\ Has(filter.min_amount) => Val(filter.min_amount) <= 10 * e.amount
        /\ Has(filter.max_amount) => 10 * e.amount <= Val(filter.max_amount)}

\* C16: getExpenses returns exactly the stored expenses that satisfy every
\* predicate the filter provides, bounds inclusive, each once and with its stored
\* field values; a filter without predicates returns every expense
C16_Filter ==
    ExpensesReturned =>
        /\ Len(ret.value) = Cardinality(Satisfying(ret.input))
        /\ \A e \in Satisfying(ret.input) :
               \E i \in DOMAIN ret.value : SameFields(ret.value[i], e)
        /\ (\A k \in DOMAIN ret.input : ~Has(ret.input[k])) =>
               Len(ret.value) = Cardinality(expenses)

\* a filter of all six predicates that returns one of two stored expenses, whose
\* amount lies on both amount bounds and whose date lies on both date bounds
C16_Witness ==
    /\ ExpensesReturned
    /\ \A k \in DOMAIN ret.input : Has(ret.input[k])
    /\ Cardinality(expenses) = 2
    /\ Len(ret.value) = 1
    /\ ret.value[1].amount = Val(ret.input.min_amount)
    /\ ret.value[1].amount = Val(ret.input.max_amount)
    /\ ret.value[1].date = Val(ret.input.start_date)
    /\ ret.value[1].date = Val(ret.input.end_date)

\* the filters that provide some of the predicates of a filter, and no other
Weakenings(filter) ==
    {[k \in DOMAIN filter |-> IF k \in K THEN filter[k] ELSE Absent] :
        K \in SUBSET DOMAIN filter}

\* C17: on the table a call has read, the expenses a filter selects are among those
\* that any part of its predicates selects, for getExpenses and for the selected
\* set of getExpenseSummary alike, so that no added predicate raises the count
C17_Narrowing ==
    /\ ExpensesReturned =>
           \A g \in Weakenings(ret.input) :
               LET alone == SelectWhere(FilterConditions(g))
               IN  /\ \A i \in DOMAIN ret.value :
                          \E e \in alone : e.id = ret.value[i].id
                   /\ Len(ret.value) <= Cardinality(alone)
    /\ Summarised =>
           \A g \in Weakenings(ret.input) :
               LET alone == SelectWhere(SummaryConditions(g))
               IN  /\ SelectWhere(SummaryConditions(ret.input)) \subseteq alone
                   /\ ret.value.total_count <= Cardinality(alone)

\* a category and an end date together return one expense, where the category
\* alone selects two and the end date alone selects two
C17_Witness ==
    /\ ExpensesReturned
    /\ Has(ret.input.category) /\ Has(ret.input.end_date)
    /\ ~Has(ret.input.payment_method) /\ ~Has(ret.input.start_date)
    /\ ~Has(ret.input.min_amount) /\ ~Has(ret.input.max_amount)
    /\ Len(ret.value) = 1
    /\ Cardinality({e \in expenses : e.category = Val(ret.input.category)}) = 2
    /\ Cardinality({e \in expenses : e.date <= Val(ret.input.end_date)}) = 1

---------------------------------------------------------------------------
(* Properties of createExpense and of the ids, under SpecCrud *)

\* the step of a createExpense call, and the step of an UPDATE statement
CreateStep == Taken /\ ret'.op = "createExpense"
UpdateStep == upd.pc = "update" /\ upd'.pc = "idle"

Ids(S) == {e.id : e \in S}

\* C19: createExpense adds one record, whose five business fields are the input's
\* values, returns that record with its id and its timestamps, and leaves every
\* record stored before as it was
C19_Create ==
    [][CreateStep =>
        LET input == ret'.input
            added == expenses' \ expenses
        IN  /\ Cardinality(added) = 1
            /\ expenses \subseteq expenses'
            /\ \A e \in added :
                   /\ 10 * e.amount = input.amount
                   /\ e.date = input.date
                   /\ e.description = input.description
                   /\ e.category = input.category
                   /\ e.payment_method = input.payment_method
                   /\ SameFields(ret'.value, e)]_vars

\* C20: the id a create assigns is the id of no stored record and of no record
\* created before (every id assigned so far is below the sequence's next value,
\* which never decreases), no two stored records share an id, and no step but a
\* create brings an id into the store: an update keeps the ids as they are
C20_IdsUnique ==
    [][/\ nextId' >= nextId
       /\ \A e \in expenses' : e.id < nextId'
       /\ \A e1, e2 \in expenses' : e1.id = e2.id => e1 = e2
       /\ CreateStep =>
              /\ ret'.value.id \notin Ids(expenses)
              /\ ret'.value.id >= nextId
              /\ Ids(expenses') = Ids(expenses) \cup {ret'.value.id}
       /\ ~CreateStep => Ids(expenses') \subseteq Ids(expenses)
       /\ UpdateStep => Ids(expenses') = Ids(expenses)]_vars

\* a create has returned id 2 into a store from which the record of id 1 has been
\* deleted: the freed id is not handed out again
C20_Witness ==
    /\ ret.op = "createExpense"
    /\ ret.value.id = 2
    /\ Ids(expenses) = {2}
    /\ nextId = 3

---------------------------------------------------------------------------
(* Properties of updateExpense and deleteExpense, under SpecCrud *)

\* the record of an id in a table
Record(S, id) == CHOOSE e \in S : e.id = id

\* the UPDATE statement of a call has found its record
Updated == UpdateStep /\ upd.input.id \in Ids(expenses)

\* C21: an update of an existing id sets the business fields present in the input
\* to the given values, keeps the absent ones, the id and created_at as they
\* were, and leaves every other record unchanged
C21_UpdateFrame ==
    [][Updated =>
        LET input == upd.input
            old == Record(expenses, input.id)
            new == Record(expenses', input.id)
        IN  /\ input.id \in Ids(expenses')
            /\ 10 * new.amount =
                   IF Has(input.amount) THEN Val(input.amount) ELSE 10 * old.amount
            /\ new.date = IF Has(input.date) THEN Val(input.date) ELSE old.date
            /\ new.description =
                   IF Has(input.description) THEN Val(input.description)
                   ELSE old.description
            /\ new.category =
                   IF Has(input.category) THEN Val(input.category) ELSE old.category
            /\ new.payment_method =
                   IF Has(input.payment_method) THEN Val(input.payment_method)
                   ELSE old.payment_method
            /\ new.id = old.id
            /\ new.created_at = old.created_at
            /\ {e \in expenses' : e.id # input.id} =
                   {e \in expenses : e.id # input.id}]_vars

\* the step that begins an updateExpense call: it ends the call with an error, or
\* leaves it before its UPDATE statement
UpdateCalled ==
    /\ upd.pc = "idle"
    /\ Taken
    /\ upd'.pc = "update" \/ ret'.op = "updateExpense"

\* C23: an update called with an id that no record has fails with the error
\* 'Expense with id <id> not found', creates no record and leaves the store as
\* it was
C23_UpdateNotFound ==
    [][UpdateCalled =>
        LET id == IF upd'.pc = "update" THEN upd'.input.id ELSE ret'.input.id
        IN  id \notin Ids(expenses) =>
                /\ upd' = upd
                /\ ~ret'.ok
                /\ ret'.value = <<"Expense with id ", id, " not found">>
                /\ expenses' = expenses]_vars

\* the error has come back for an id that was deleted, from a store that holds
\* another record
C23_Witness ==
    /\ ret.op = "updateExpense"
    /\ ~ret.ok
    /\ ret.value = <<"Expense with id ", 1, " not found">>
    /\ Ids(expenses) = {2}

DeleteStep == Taken /\ ret'.op = "deleteExpense"

\* C24: a delete returns true exactly if a record of that id existed, leaves no
\* record of that id and every other record as it was; a delete of an id that is
\* gone returns false and changes nothing
C24_Delete ==
    [][DeleteStep =>
        LET id == ret'.input
        IN  /\ ret'.value = (id \in Ids(expenses))
            /\ id \notin Ids(expenses')
            /\ expenses' = {e \in expenses : e.id # id}
            /\ id \notin Ids(expenses) => ~ret'.value /\ expenses' = expenses]_vars

\* false has come back for an id that was handed out and deleted before, from a
\* store that holds another record
C24_Witness ==
    /\ ret.op = "deleteExpense"
    /\ ret.input = 1
    /\ ret.value = FALSE
    /\ nextId > 1
    /\ Ids(expenses) = {2}

\* C25: every stored expense has an amount above 0
C25_PositiveAmount == \A e \in expenses : e.amount > 0

\* C27: an update whose UPDATE statement finds no record of its id ends with the
\* error 'Expense with id <id> not found', never with a success or another
\* failure
C27_UpdateAfterDelete ==
    [][UpdateStep /\ upd.input.id \notin Ids(expenses) =>
        /\ ~ret'.ok
        /\ ret'.value = <<"Expense with id ", upd.input.id, " not found">>]_vars

---------------------------------------------------------------------------
(* Properties of the timestamps, under SpecClocks *)

\* C22: every successful update leaves the record's updated_at above its value
\* before the call
C22_UpdatedAtAdvances ==
    [][Updated =>
        Record(expenses', upd.input.id).updated_at
            > Record(expenses, upd.input.id).updated_at]_vars

\* C26: every stored expense has updated_at >= created_at
C26_UpdatedNotBeforeCreated == \A e \in expenses : e.updated_at >= e.created_at

---------------------------------------------------------------------------
(* The order of the period's bounds, under Spec *)

\* C28: the period of every summary has start_date <= end_date, whatever the
\* table and the filter are, an empty selected set with one bound given included
C28_PeriodOrdered ==
    Summarised => ret.value.period.start_date <= ret.value.period.end_date

\* C28, amended: the period has start_date <= end_date whenever the selected set
\* is not empty, or the bounds it falls back to are in order, a bound the filter
\* does not give being the time of the call
C28_PeriodOrderedAsBounds ==
    [][SummaryCall =>
        LET input == ret'.input
            period == ret'.value.period
            lo == IF Has(input.start_date) THEN Val(input.start_date) ELSE appNow
            hi == IF Has(input.end_date) THEN Val(input.end_date) ELSE appNow'
        IN  Matching(input) # {} \/ lo <= hi =>
                period.start_date <= period.end_date]_vars

\* a summary has returned over an empty selected set of a table that holds an
\* expense, with the start bound alone given and not after the time of the call
C28_Witness ==
    /\ Summarised
    /\ expenses # {}
    /\ Matching(ret.input) = {}
    /\ Has(ret.input.start_date) /\ ~Has(ret.input.end_date)
    /\ ret.value.period.start_date = Val(ret.input.start_date)
    /\ ret.value.period.start_date < ret.value.period.end_date

---------------------------------------------------------------------------
(* Properties of the client, under SpecFilters and SpecClient *)

\* App makes and awaits no call
Quiet == \A n \in 1..MaxCalls : client.calls[n].kind = "none"

\* C29: once every getExpenses call of the client has completed, the displayed
\* list and total are the response to the request made for the latest filters,
\* not that to an earlier request which completed later
C29_LatestFilters ==
    client.mounted /\ Quiet => client.displayed = client.requested

\* C30: whenever no handler of the client is in flight, totalExpenses is the sum
\* of amount over the displayed list
C30_TotalOfDisplayed ==
    Quiet => client.totalExpenses = ReduceAmount(client.expenses, 0)

====
